---- MODULE Spec2Model ----
(***************************************************************************)
(* A model of dotenv-rs: the line iterator (src/iter.rs), the loader       *)
(* facade and its once-only gate (src/lib.rs), the line parser (parse.rs)  *)
(* and the ascending file finder (find.rs).                                *)
(*                                                                         *)
(* Strings are sequences of one-character strings, so that starts_with and *)
(* the concatenation done by interpolation are computed, not assumed.      *)
(***************************************************************************)
EXTENDS Integers, Sequences, FiniteSets, TLC

VARIABLES env, dirs, cwd, last, START, pc, loads

vars == <<env, dirs, cwd, last, START, pc, loads>>

(***************************************************************************)
(* Bounds                                                                  *)
(***************************************************************************)
MaxLines == 2

MaxDepth == 3

NumThreads == 2

(***************************************************************************)
(* Keys, values, prefixes                                                  *)
(***************************************************************************)
KeyTE == <<"T", "E">>

KeyTe == <<"T", "e">>

Keys == {KeyTE, KeyTe}

Prefixes == {<<>>, <<"T", "e">>, <<"T", "e", "s">>}

EmptyStr == <<>>

(***************************************************************************)
(* The process environment: std::env.  A variable is absent, holds valid   *)
(* unicode, or holds bytes that are not valid unicode.                     *)
(***************************************************************************)
Absent == [st |-> "absent", val |-> EmptyStr]

NotUnicode == [st |-> "notunicode", val |-> EmptyStr]

Unicode(v) == [st |-> "unicode", val |-> v]

EnvVals == {Absent, NotUnicode, Unicode(<<"1">>)}

\* std::env::var: Ok(value) only when the variable is present and valid
\* unicode; Err(NotPresent) or Err(NotUnicode) otherwise.
env_var(e, key) ==
    IF e[key].st = "unicode" THEN [ok |-> TRUE, val |-> e[key].val]
    ELSE [ok |-> FALSE, val |-> EmptyStr]

\* std::env::set_var
env_set_var(e, key, value) == [e EXCEPT ![key] = Unicode(value)]

\* str::starts_with: a plain, case-sensitive comparison of the leading
\* characters.
starts_with(key, prefix) ==
    /\ Len(prefix) <= Len(key)
    /\ SubSeq(key, 1, Len(prefix)) = prefix

(***************************************************************************)
(* Lines of a file.  A line read from the file is a read failure, blank,   *)
(* a comment, or a declaration: a key, an optional '=' and a value made of *)
(* literal characters and ${NAME} references.                              *)
(***************************************************************************)
Lit(c) == [ref |-> FALSE, ch |-> c, name |-> EmptyStr]

Ref(k) == [ref |-> TRUE, ch |-> "", name |-> k]

Decl(k, ps) == [kind |-> "decl", key |-> k, eq |-> TRUE, parts |-> ps]

NoEqLine(k) == [kind |-> "decl", key |-> k, eq |-> FALSE, parts |-> <<>>]

BlankLine == [kind |-> "blank", key |-> EmptyStr, eq |-> FALSE, parts |-> <<>>]

CommentLine == [kind |-> "comment", key |-> EmptyStr, eq |-> FALSE, parts |-> <<>>]

IoErrLine == [kind |-> "ioerr", key |-> EmptyStr, eq |-> FALSE, parts |-> <<>>]

NoLine == [kind |-> "none", key |-> EmptyStr, eq |-> FALSE, parts |-> <<>>]

LinePool ==
    { Decl(KeyTE, <<Lit("1")>>),
      Decl(KeyTE, <<Lit("2")>>),
      Decl(KeyTe, <<Ref(KeyTE), Lit("2")>>),
      NoEqLine(KeyTE),
      BlankLine, CommentLine, IoErrLine }

RECURSIVE SeqsUpTo(_, _)
SeqsUpTo(S, n) ==
    IF n = 0 THEN {<<>>}
    ELSE LET shorter == SeqsUpTo(S, n - 1)
         IN shorter \cup {Append(s, x) : s \in {t \in shorter : Len(t) = n - 1}, x \in S}

Files == SeqsUpTo(LinePool, MaxLines)

(***************************************************************************)
(* errors.rs                                                               *)
(***************************************************************************)
ErrIo(line) == [kind |-> "Io", line |-> line]

ErrLineParse(line) == [kind |-> "LineParse", line |-> line]

ErrNotFound == [kind |-> "NotFound", line |-> NoLine]

NoErr == [kind |-> "none", line |-> NoLine]

Ok == [ok |-> TRUE, err |-> NoErr]

Err(e) == [ok |-> FALSE, err |-> e]

(***************************************************************************)
(* parse.rs: the substitution cache and parse_line                         *)
(***************************************************************************)
\* HashMap<String, Option<String>>: per key, no entry, None or Some(value).
NoEntry == [in |-> FALSE, some |-> FALSE, val |-> EmptyStr]

None == [in |-> TRUE, some |-> FALSE, val |-> EmptyStr]

Some(v) == [in |-> TRUE, some |-> TRUE, val |-> v]

EmptyMap == [k \in Keys |-> NoEntry]

\* A reference resolves against the cache of the current pass first, then
\* against the live environment, and expands to the empty string otherwise.
apply_substitution(substitution_data, e, name) ==
    IF substitution_data[name].some THEN substitution_data[name].val
    ELSE IF env_var(e, name).ok THEN env_var(e, name).val
    ELSE EmptyStr

RECURSIVE parse_value(_, _, _)
parse_value(parts, substitution_data, e) ==
    IF parts = <<>> THEN EmptyStr
    ELSE LET p == Head(parts)
             s == IF p.ref THEN apply_substitution(substitution_data, e, p.name)
                  ELSE <<p.ch>>
         IN s \o parse_value(Tail(parts), substitution_data, e)

\* parse_line: nothing for a blank line or a comment, a parse failure for a
\* declaration without '=', and otherwise the resolved pair, entered into the
\* cache before it is returned.
parse_line(line, substitution_data, e) ==
    IF line.kind \in {"blank", "comment"}
    THEN [tag |-> "none", key |-> EmptyStr, value |-> EmptyStr,
          err |-> NoErr, subst |-> substitution_data]
    ELSE IF ~line.eq
    THEN [tag |-> "err", key |-> EmptyStr, value |-> EmptyStr,
          err |-> ErrLineParse(line), subst |-> substitution_data]
    ELSE LET v == parse_value(line.parts, substitution_data, e)
         IN [tag |-> "pair", key |-> line.key, value |-> v, err |-> NoErr,
             subst |-> [substitution_data EXCEPT ![line.key] = Some(v)]]

(***************************************************************************)
(* iter.rs: Iter                                                           *)
(***************************************************************************)
\* Iter::new: the lines of the reader, none consumed, and an empty cache.
Iter_new(file) == [lines |-> file, pos |-> 0, substitution_data |-> EmptyMap]

ItemEnd(it) == [tag |-> "end", key |-> EmptyStr, value |-> EmptyStr, err |-> NoErr, it |-> it]

ItemErr(e, it) == [tag |-> "err", key |-> EmptyStr, value |-> EmptyStr, err |-> e, it |-> it]

ItemPair(k, v, it) == [tag |-> "pair", key |-> k, value |-> v, err |-> NoErr, it |-> it]

\* A variant that hands parse_line a fresh cache for every line.
PassCache_fresh(it) == EmptyMap

\* The cache handed to parse_line for the next line: the iterator's own.
PassCache(it) == it.substitution_data

\* Iterator::next: read lines until one yields a pair or an error, or the
\* input is exhausted.  Returns the item and the advanced iterator.
RECURSIVE Iter_next(_, _)
Iter_next(it, e) ==
    IF it.pos >= Len(it.lines) THEN ItemEnd(it)
    ELSE LET line == it.lines[it.pos + 1]
             adv == [it EXCEPT !.pos = @ + 1]
         IN IF line.kind = "ioerr" THEN ItemErr(ErrIo(line), adv)
            ELSE LET p == parse_line(line, PassCache(adv), e)
                     it2 == [adv EXCEPT !.substitution_data = p.subst]
                 IN IF p.tag = "pair" THEN ItemPair(p.key, p.value, it2)
                    ELSE IF p.tag = "none" THEN Iter_next(it2, e)
                    ELSE ItemErr(p.err, it2)

\* A variant without the prefix filter.
SkipKey_never(key, prefix) == FALSE

\* iter.rs:25 and :39, the prefix filter: skip the pair?
SkipKey(key, prefix) == ~starts_with(key, prefix)

\* A variant that sets the variable whether or not it is defined.
ShouldSet_always(e, key) == TRUE

\* A variant with the test inverted (is_ok for is_err).
ShouldSet_inverted(e, key) == env_var(e, key).ok

\* iter.rs:26, the guard of set_var
ShouldSet(e, key) == ~env_var(e, key).ok

\* The outcome of Iter::load: the environment, the result and the iterator.
LoadOut(e, r, it) == [env |-> e, result |-> r, it |-> it]

\* A variant of Iter::load that drops a failed item and carries on.
RECURSIVE Iter_load_lenient(_, _, _)
Iter_load_lenient(it, prefix, e) ==
    LET item == Iter_next(it, e)
    IN IF item.tag = "end" THEN LoadOut(e, Ok, item.it)
       ELSE IF item.tag = "err" THEN Iter_load_lenient(item.it, prefix, e)
       ELSE IF SkipKey(item.key, prefix) THEN Iter_load_lenient(item.it, prefix, e)
       ELSE IF ShouldSet(e, item.key)
            THEN Iter_load_lenient(item.it, prefix, env_set_var(e, item.key, item.value))
            ELSE Iter_load_lenient(item.it, prefix, e)

\* Iter::load
RECURSIVE Iter_load(_, _, _)
Iter_load(it, prefix, e) ==
    LET item == Iter_next(it, e)
    IN IF item.tag = "end" THEN LoadOut(e, Ok, item.it)
       ELSE IF item.tag = "err" THEN LoadOut(e, Err(item.err), item.it)
       ELSE IF SkipKey(item.key, prefix) THEN Iter_load(item.it, prefix, e)
       ELSE IF ShouldSet(e, item.key)
            THEN Iter_load(item.it, prefix, env_set_var(e, item.key, item.value))
            ELSE Iter_load(item.it, prefix, e)

\* A variant that keeps the entry a key already has.
result_insert_keep(result, key, value) ==
    IF result[key].in THEN result ELSE [result EXCEPT ![key] = Some(value)]

\* HashMap::insert of iter.rs:40
result_insert(result, key, value) == [result EXCEPT ![key] = Some(value)]

CollectOut(m, r, it) == [vars |-> m, result |-> r, it |-> it]

\* The loop of Iter::get_vars_base, from a partial result.
RECURSIVE get_vars_loop(_, _, _, _)
get_vars_loop(it, prefix, e, result) ==
    LET item == Iter_next(it, e)
    IN IF item.tag = "end" THEN CollectOut(result, Ok, item.it)
       ELSE IF item.tag = "err" THEN CollectOut(EmptyMap, Err(item.err), item.it)
       ELSE IF SkipKey(item.key, prefix) THEN get_vars_loop(item.it, prefix, e, result)
       ELSE get_vars_loop(item.it, prefix, e, result_insert(result, item.key, item.value))

\* Iter::get_vars_base
get_vars_base(it, prefix, e) == get_vars_loop(it, prefix, e, EmptyMap)

\* Iter::get_vars_with_prefix
get_vars_with_prefix(it, prefix, e) == get_vars_base(it, prefix, e)

\* Iter::get_vars
get_vars(it, e) == get_vars_base(it, EmptyStr, e)

(***************************************************************************)
(* The file system: a chain of directories from the root (index 1) down to *)
(* the deepest one; each directory holds, per file name, nothing, a file   *)
(* or an entry that cannot be read.                                        *)
(***************************************************************************)
DefaultName == ".env"

FileNames == {".env", "custom.env"}

AbsentEntry == [st |-> "absent", content |-> <<>>]

UnreadableEntry == [st |-> "unreadable", content |-> <<>>]

FileEntry(f) == [st |-> "file", content |-> f]

EmptyDir == [n \in FileNames |-> AbsentEntry]

Paths(fs) == {<<d, n>> : d \in 1..Len(fs), n \in FileNames}

\* File::open(path).map_err(Error::Io)
File_open(fs, path) ==
    LET c == fs[path[1]][path[2]]
    IN IF c.st = "file" THEN [ok |-> TRUE, err |-> NoErr, content |-> c.content]
       ELSE [ok |-> FALSE, err |-> ErrIo(NoLine), content |-> <<>>]

(***************************************************************************)
(* find.rs: the ascending search                                           *)
(***************************************************************************)
FindOut(r, d) == [result |-> r, dir |-> d]

\* A variant that examines the starting directory only.
find_here(fs, directory, filename) ==
    LET candidate == fs[directory][filename]
    IN IF candidate.st = "file" THEN FindOut(Ok, directory)
       ELSE IF candidate.st = "unreadable" THEN FindOut(Err(ErrIo(NoLine)), 0)
       ELSE FindOut(Err(ErrNotFound), 0)

\* find(directory, filename): the candidate in this directory, else the
\* parent's, up to the root; a candidate that cannot be examined aborts the
\* search with the I/O error.
RECURSIVE find(_, _, _)
find(fs, directory, filename) ==
    LET candidate == fs[directory][filename]
    IN IF candidate.st = "file" THEN FindOut(Ok, directory)
       ELSE IF candidate.st = "unreadable" THEN FindOut(Err(ErrIo(NoLine)), 0)
       ELSE IF directory > 1 THEN find(fs, directory - 1, filename)
       ELSE FindOut(Err(ErrNotFound), 0)

\* Finder::find: search from the current directory, then open the file found.
Finder_find(fs, dir, filename) ==
    LET found == find(fs, dir, filename)
    IN IF ~found.result.ok
       THEN [result |-> found.result, dir |-> 0, content |-> <<>>]
       ELSE LET f == File_open(fs, <<found.dir, filename>>)
            IN IF f.ok THEN [result |-> Ok, dir |-> found.dir, content |-> f.content]
               ELSE [result |-> Err(f.err), dir |-> 0, content |-> <<>>]

(***************************************************************************)
(* lib.rs: the loader facade.  Every operation yields the environment it   *)
(* leaves, its result, the file name searched for (none when the file is   *)
(* given by path), the directory of the file the search found (0: none;    *)
(* the path returned when the result is Ok), whether a file was opened,    *)
(* that file, the number of lines read from it and the mapping returned by *)
(* a collection.                                                           *)
(***************************************************************************)
Outcome(op, name, prefix, e, r, d, opened, file, read, m) ==
    [op |-> op, name |-> name, prefix |-> prefix, env |-> e, result |-> r, dir |-> d,
     opened |-> opened, file |-> file, read |-> read, vars |-> m, again |-> FALSE]

ByPath == ""

Failed(op, name, prefix, e, err) ==
    Outcome(op, name, prefix, e, err, 0, FALSE, <<>>, 0, EmptyMap)

Loaded(name, prefix, d, file, o) ==
    Outcome("load", name, prefix, o.env, o.result, d, TRUE, file, o.it.pos, EmptyMap)

Collected(prefix, file, e, o) ==
    Outcome("collect", ByPath, prefix, e, o.result, 0, TRUE, file, o.it.pos, o.vars)

from_path_with_prefix(fs, path, prefix, e) ==
    LET f == File_open(fs, path)
    IN IF ~f.ok THEN Failed("load", ByPath, prefix, e, Err(f.err))
       ELSE Loaded(ByPath, prefix, 0, f.content, Iter_load(Iter_new(f.content), prefix, e))

from_path(fs, path, e) ==
    LET f == File_open(fs, path)
    IN IF ~f.ok THEN Failed("load", ByPath, EmptyStr, e, Err(f.err))
       ELSE Loaded(ByPath, EmptyStr, 0, f.content, Iter_load(Iter_new(f.content), EmptyStr, e))

from_filename_with_prefix(fs, dir, filename, prefix, e) ==
    LET f == Finder_find(fs, dir, filename)
    IN IF ~f.result.ok THEN Failed("load", filename, prefix, e, f.result)
       ELSE Loaded(filename, prefix, f.dir, f.content, Iter_load(Iter_new(f.content), prefix, e))

from_filename(fs, dir, filename, e) ==
    LET f == Finder_find(fs, dir, filename)
    IN IF ~f.result.ok THEN Failed("load", filename, EmptyStr, e, f.result)
       ELSE Loaded(filename, EmptyStr, f.dir, f.content, Iter_load(Iter_new(f.content), EmptyStr, e))

dotenv_with_prefix(fs, dir, prefix, e) ==
    LET f == Finder_find(fs, dir, DefaultName)
    IN IF ~f.result.ok THEN Failed("load", DefaultName, prefix, e, f.result)
       ELSE Loaded(DefaultName, prefix, f.dir, f.content, Iter_load(Iter_new(f.content), prefix, e))

dotenv(fs, dir, e) ==
    LET f == Finder_find(fs, dir, DefaultName)
    IN IF ~f.result.ok THEN Failed("load", DefaultName, EmptyStr, e, f.result)
       ELSE Loaded(DefaultName, EmptyStr, f.dir, f.content, Iter_load(Iter_new(f.content), EmptyStr, e))

\* from_filename_iter, and dotenv_iter for the default name: the opened
\* iterator, nothing read yet.
from_filename_iter(fs, dir, filename, e) ==
    LET f == Finder_find(fs, dir, filename)
    IN IF ~f.result.ok THEN Failed("find", filename, EmptyStr, e, f.result)
       ELSE Outcome("find", filename, EmptyStr, e, Ok, f.dir, TRUE, f.content, 0, EmptyMap)

dotenv_iter(fs, dir, e) == from_filename_iter(fs, dir, DefaultName, e)

\* from_path_iter(path) followed by Iter::get_vars_with_prefix
path_get_vars_with_prefix(fs, path, prefix, e) ==
    LET f == File_open(fs, path)
    IN IF ~f.ok THEN Failed("collect", ByPath, prefix, e, Err(f.err))
       ELSE Collected(prefix, f.content, e,
                      get_vars_with_prefix(Iter_new(f.content), prefix, e))

\* from_path_iter(path) followed by Iter::get_vars
path_get_vars(fs, path, e) ==
    LET f == File_open(fs, path)
    IN IF ~f.ok THEN Failed("collect", ByPath, EmptyStr, e, Err(f.err))
       ELSE Collected(EmptyStr, f.content, e, get_vars(Iter_new(f.content), e))

(***************************************************************************)
(* State and actions of the sequential facade                              *)
(***************************************************************************)
NoOp == Failed("none", ByPath, EmptyStr, [k \in Keys |-> Absent], Ok)

Threads == 1..NumThreads

IdleThreads == [t \in Threads |-> [at |-> "idle", fn |-> "none"]]

\* One directory chain: the file only in the root, the process one level down.
LoadLayout(f) == <<[EmptyDir EXCEPT ![DefaultName] = FileEntry(f)], EmptyDir>>

Init ==
    /\ env \in [Keys -> EnvVals]
    /\ dirs \in {LoadLayout(f) : f \in Files}
    /\ cwd = 2
    /\ last = NoOp
    /\ START = "INCOMPLETE"
    /\ pc = IdleThreads
    /\ loads = 0

\* This call repeats the call before it: a load of the same file with the
\* same prefix, after that load succeeded.
Repeats(o) ==
    /\ o.op = "load" /\ o.opened
    /\ last.op = "load" /\ last.opened /\ last.result.ok
    /\ o.file = last.file /\ o.prefix = last.prefix

\* Apply an operation's outcome: the environment it leaves, and the record
\* of the call (with the environment before it).
Apply(o) ==
    /\ env' = o.env
    /\ last' = [o EXCEPT !.env = env, !.again = Repeats(o)]
    /\ UNCHANGED <<dirs, cwd, START, pc, loads>>

FromPath == \E path \in Paths(dirs) : Apply(from_path(dirs, path, env))

FromPathWithPrefix ==
    \E path \in Paths(dirs), prefix \in Prefixes :
        Apply(from_path_with_prefix(dirs, path, prefix, env))

FromFilename == \E n \in FileNames : Apply(from_filename(dirs, cwd, n, env))

FromFilenameWithPrefix ==
    \E n \in FileNames, prefix \in Prefixes :
        Apply(from_filename_with_prefix(dirs, cwd, n, prefix, env))

Dotenv == Apply(dotenv(dirs, cwd, env))

DotenvWithPrefix == \E prefix \in Prefixes : Apply(dotenv_with_prefix(dirs, cwd, prefix, env))

GetVars == \E path \in Paths(dirs) : Apply(path_get_vars(dirs, path, env))

GetVarsWithPrefix ==
    \E path \in Paths(dirs), prefix \in Prefixes :
        Apply(path_get_vars_with_prefix(dirs, path, prefix, env))

Next ==
    \/ FromPath
    \/ FromPathWithPrefix
    \/ FromFilename
    \/ FromFilenameWithPrefix
    \/ Dotenv
    \/ DotenvWithPrefix
    \/ GetVars
    \/ GetVarsWithPrefix

Spec == Init /\ [][Next]_vars

(***************************************************************************)
(* The ascending search over every layout of the directory chain           *)
(***************************************************************************)
FoundFile == <<Decl(KeyTE, <<Lit("1")>>)>>

Entries == {AbsentEntry, UnreadableEntry, FileEntry(FoundFile)}

Layouts == SeqsUpTo([FileNames -> Entries], MaxDepth) \ {<<>>}

InitFind ==
    /\ env = [k \in Keys |-> Absent]
    /\ dirs \in Layouts
    /\ cwd \in 1..Len(dirs)
    /\ last = NoOp
    /\ START = "INCOMPLETE"
    /\ pc = IdleThreads
    /\ loads = 0

FromFilenameIter == \E n \in FileNames : Apply(from_filename_iter(dirs, cwd, n, env))

DotenvIter == Apply(dotenv_iter(dirs, cwd, env))

NextFind ==
    \/ Dotenv
    \/ FromFilename
    \/ DotenvIter
    \/ FromFilenameIter

SpecFind == InitFind /\ [][NextFind]_vars

(***************************************************************************)
(* lib.rs: the ambient accessors var and vars behind START, a std Once     *)
(***************************************************************************)
\* A variant that also returns while another thread runs the closure.
once_is_started(state) == state # "INCOMPLETE"

\* Once::call_once returns without running the closure once the Once is
\* complete; while another thread runs the closure, the caller blocks.
once_is_completed(state) == state = "COMPLETE"

At(t, a) == pc[t].at = a

Goto(t, a) == pc' = [pc EXCEPT ![t].at = a]

\* A thread calls var(key)
Var(t) ==
    /\ pc[t].at \in {"idle", "done"}
    /\ pc' = [pc EXCEPT ![t] = [at |-> "call_once", fn |-> "var"]]
    /\ UNCHANGED <<env, dirs, cwd, last, START, loads>>

\* A thread calls vars()
VarsCall(t) ==
    /\ pc[t].at \in {"idle", "done"}
    /\ pc' = [pc EXCEPT ![t] = [at |-> "call_once", fn |-> "vars"]]
    /\ UNCHANGED <<env, dirs, cwd, last, START, loads>>

\* START.call_once on an incomplete Once: this thread is to run the closure.
OnceBegin(t) ==
    /\ At(t, "call_once")
    /\ START = "INCOMPLETE"
    /\ START' = "RUNNING"
    /\ Goto(t, "closure")
    /\ UNCHANGED <<env, dirs, cwd, last, loads>>

\* The closure: dotenv().ok()
OnceClosure(t) ==
    /\ At(t, "closure")
    /\ LET o == dotenv(dirs, cwd, env)
       IN /\ env' = o.env
          /\ last' = [o EXCEPT !.env = env]
    /\ loads' = loads + 1
    /\ Goto(t, "closed")
    /\ UNCHANGED <<dirs, cwd, START>>

\* The closure has returned: the Once becomes complete.
OnceComplete(t) ==
    /\ At(t, "closed")
    /\ START' = "COMPLETE"
    /\ Goto(t, "read")
    /\ UNCHANGED <<env, dirs, cwd, last, loads>>

\* START.call_once on a complete Once returns at once.
OncePass(t) ==
    /\ At(t, "call_once")
    /\ once_is_completed(START)
    /\ Goto(t, "read")
    /\ UNCHANGED <<env, dirs, cwd, last, START, loads>>

\* env::var(key) or env::vars(): the accessor reads the environment and
\* returns.
ReadEnv(t) ==
    /\ At(t, "read")
    /\ Goto(t, "done")
    /\ UNCHANGED <<env, dirs, cwd, last, START, loads>>

OnceFiles == {f \in Files : Len(f) <= 1}

InitOnce ==
    /\ env \in [Keys -> {Absent, Unicode(<<"1">>)}]
    /\ dirs \in {LoadLayout(f) : f \in OnceFiles} \cup {<<EmptyDir, EmptyDir>>}
    /\ cwd = 2
    /\ last = NoOp
    /\ START = "INCOMPLETE"
    /\ pc = IdleThreads
    /\ loads = 0

NextOnce ==
    \E t \in Threads :
        \/ Var(t)
        \/ VarsCall(t)
        \/ OnceBegin(t)
        \/ OnceClosure(t)
        \/ OnceComplete(t)
        \/ OncePass(t)
        \/ ReadEnv(t)

SpecOnce == InitOnce /\ [][NextOnce]_vars

(***************************************************************************)
(* Vocabulary of the properties, stated on the file and on the record of   *)
(* the last call rather than through the operators above.                  *)
(***************************************************************************)
Before == last.env

\* p is a leading part of k, character for character.
HasPrefix(k, p) == \E n \in 0..Len(k) : SubSeq(k, 1, n) = p

IsDecl(l) == l.kind = "decl" /\ l.eq

Fails(l) == l.kind = "ioerr" \/ (l.kind = "decl" /\ ~l.eq)

ErrorOf(l) == IF l.kind = "ioerr" THEN ErrIo(l) ELSE ErrLineParse(l)

FailingLines(file) == {i \in 1..Len(file) : Fails(file[i])}

Min(S) == CHOOSE x \in S : \A y \in S : x <= y

Max(S) == CHOOSE x \in S : \A y \in S : x >= y

\* The lines of the file that are reached: all of them, or those up to the
\* first failing line.
Reached(file) ==
    IF FailingLines(file) = {} THEN 1..Len(file)
    ELSE 1..Min(FailingLines(file))

\* The reached declarations of key k
DeclsOf(file, k) == {i \in Reached(file) : IsDecl(file[i]) /\ file[i].key = k}

\* The value of the declaration on line j, resolved in one forward pass: a
\* reference takes the value of the nearest earlier declaration of the name,
\* else the variable of the environment e, else nothing.
RECURSIVE ValueAt(_, _, _)
RECURSIVE PartsValue(_, _, _, _)
PartsValue(file, j, parts, e) ==
    IF parts = <<>> THEN EmptyStr
    ELSE LET p == Head(parts)
             earlier == {i \in 1..(j - 1) : IsDecl(file[i]) /\ file[i].key = p.name}
             s == IF ~p.ref THEN <<p.ch>>
                  ELSE IF earlier # {} THEN ValueAt(file, Max(earlier), e)
                  ELSE IF e[p.name].st = "unicode" THEN e[p.name].val
                  ELSE EmptyStr
         IN s \o PartsValue(file, j, Tail(parts), e)

ValueAt(file, j, e) == PartsValue(file, j, file[j].parts, e)

FileAB == <<Decl(KeyTE, <<Lit("1")>>), Decl(KeyTe, <<Ref(KeyTE), Lit("2")>>)>>

FileBA == <<Decl(KeyTe, <<Ref(KeyTE), Lit("2")>>), Decl(KeyTE, <<Lit("1")>>)>>

LoadRan == last.op = "load" /\ last.opened

CollectRan == last.op = "collect" /\ last.opened

(***************************************************************************)
(* Properties                                                              *)
(***************************************************************************)

\* C1: after a load, every environment variable that was defined before the
\* load still has the value it had before it.
C1_DefinedKept ==
    last.op = "load" =>
        \A k \in Keys : Before[k].st # "absent" => env[k] = Before[k]

\* C3: a load with prefix P changes a key only if the key starts with P
\* (case-sensitive; the empty prefix matches every key), and a key that does
\* not start with P and was undefined before the load is undefined after it.
C3_PrefixOnly ==
    last.op = "load" =>
        \A k \in Keys :
            /\ env[k] # Before[k] => HasPrefix(k, last.prefix)
            /\ (~HasPrefix(k, last.prefix) /\ Before[k] = Absent) => env[k] = Absent

\* A load with prefix "Te" of a file declaring TE and Te, both undefined
\* before, has left TE undefined and set Te.
C3_Witness ==
    /\ LoadRan /\ last.result.ok
    /\ last.prefix = <<"T", "e">>
    /\ DeclsOf(last.file, KeyTE) # {} /\ DeclsOf(last.file, KeyTe) # {}
    /\ Before[KeyTE] = Absent /\ Before[KeyTe] = Absent
    /\ env[KeyTE] = Absent /\ env[KeyTe].st = "unicode"

\* C4: for a file that parses without error, the mapping returned by a
\* collection holds exactly the declared keys that start with the prefix,
\* each mapped to Some(value of the key's last declaration), never to None.
C4_CollectMapping ==
    (CollectRan /\ last.result.ok) =>
        \A k \in Keys :
            /\ last.vars[k].in <=> (DeclsOf(last.file, k) # {} /\ HasPrefix(k, last.prefix))
            /\ last.vars[k].in =>
                 /\ last.vars[k].some
                 /\ last.vars[k].val = ValueAt(last.file, Max(DeclsOf(last.file, k)), Before)

\* A collection that returned a key the file declares twice.
C4_Witness ==
    /\ CollectRan /\ last.result.ok
    /\ \E k \in Keys : last.vars[k].in /\ Cardinality(DeclsOf(last.file, k)) > 1

\* A collection that holds one declared key and excludes the other by prefix.
C4_WitnessPrefix ==
    /\ CollectRan /\ last.result.ok /\ last.prefix # EmptyStr
    /\ \E k \in Keys : last.vars[k].in
    /\ \E k \in Keys : ~last.vars[k].in /\ DeclsOf(last.file, k) # {}

\* C5: when a load returns an error, the environment is the same as it was
\* before the load started.
C5_FailedLoadNoChange ==
    (last.op = "load" /\ ~last.result.ok) => env = Before

\* C6: if line k is the first failing line of the file, load and collect
\* return exactly that line's error, read exactly k lines, set no key of a
\* later line and return no mapping; without a failing line they return Ok.
C6_ShortCircuit ==
    (LoadRan \/ CollectRan) =>
        IF FailingLines(last.file) = {}
        THEN last.result.ok /\ last.read = Len(last.file)
        ELSE LET k == Min(FailingLines(last.file))
             IN /\ ~last.result.ok
                /\ last.result.err = ErrorOf(last.file[k])
                /\ last.read = k
                /\ last.vars = EmptyMap
                /\ \A key \in Keys :
                       env[key] # Before[key] =>
                           \E i \in 1..(k - 1) : IsDecl(last.file[i]) /\ last.file[i].key = key

\* A load stopped at a failing first line that is followed by a declaration
\* of a key that was, and still is, undefined.
C6_Witness ==
    /\ LoadRan /\ ~last.result.ok
    /\ Len(last.file) = 2 /\ last.read = 1
    /\ IsDecl(last.file[2])
    /\ Before[last.file[2].key] = Absent /\ env[last.file[2].key] = Absent

\* C7: a second load of the same file with the same prefix, after the first
\* succeeded, leaves the environment as the first load left it.
C7_Idempotent == last.again => env = Before

\* A repeated load of a file declaring a key of the prefix, which the first
\* load had defined.
C7_Witness ==
    /\ last.again /\ last.result.ok
    /\ \E k \in Keys :
          /\ DeclsOf(last.file, k) # {} /\ HasPrefix(k, last.prefix)
          /\ env[k].st = "unicode"

C10_FirstWins ==
    LoadRan =>
        \A k \in Keys :
            (Before[k] = Absent /\ HasPrefix(k, last.prefix) /\ DeclsOf(last.file, k) # {}) =>
                /\ env[k] = Unicode(ValueAt(last.file, Min(DeclsOf(last.file, k)), Before))
                /\ last.result.ok =>
                      get_vars_base(Iter_new(last.file), last.prefix, Before).vars[k]
                          = Some(ValueAt(last.file, Max(DeclsOf(last.file, k)), Before))

\* A load of a file that declares an undefined key twice with different
\* values: the environment holds the first, not the last.
C10_Witness ==
    /\ LoadRan /\ last.result.ok
    /\ \E k \in Keys :
          /\ Before[k] = Absent /\ HasPrefix(k, last.prefix)
          /\ Cardinality(DeclsOf(last.file, k)) > 1
          /\ env[k].val = ValueAt(last.file, Min(DeclsOf(last.file, k)), Before)
          /\ env[k].val # ValueAt(last.file, Max(DeclsOf(last.file, k)), Before)

\* C2: however the threads calling var() and vars() interleave, the default
\* load runs at most once, exactly once by the time any accessor reads the
\* environment, whether it succeeded or failed, and no accessor reads the
\* environment before that load has completed.
C2_LoadOnce ==
    /\ loads <= 1
    /\ \A t \in Threads :
          pc[t].at \in {"read", "done"} => (START = "COMPLETE" /\ loads = 1)

\* Every thread has finished an accessor call, through var() and through
\* vars(), after the one default load failed.
C2_Witness ==
    /\ \A t \in Threads : pc[t].at = "done"
    /\ \E t, u \in Threads : pc[t].fn = "var" /\ pc[u].fn = "vars"
    /\ last.op = "load" /\ ~last.result.ok
    /\ loads = 1

\* The directories from d up to the root that hold a file of the name
Holders(fs, d, n) == {i \in 1..d : fs[i][n].st = "file"}

\* The directories from d up to the root whose candidate cannot be examined
Blocked(fs, d, n) == {i \in 1..d : fs[i][n].st = "unreadable"}

Searched == last.op \in {"find", "load"} /\ last.name # ByPath

\* C9 as stated: the search returns the file of the nearest directory among
\* the starting one and its ancestors that holds the name, and NotFound if
\* and only if none of them holds it.
C9_NearestOrNotFound ==
    Searched =>
        LET H == Holders(dirs, cwd, last.name)
        IN /\ H # {} => (last.opened /\ last.dir = Max(H))
           /\ (~last.opened /\ last.result.err = ErrNotFound) <=> H = {}

\* C9 as amended: the search returns the file of the nearest directory that
\* holds the name unless a nearer candidate (or, when no directory holds it,
\* any candidate) cannot be examined, in which case it returns that I/O
\* error; it returns NotFound if and only if no directory holds the name and
\* no candidate fails; it never returns a farther file when a nearer
\* directory holds one.
C9_NearestUnlessIoError ==
    Searched =>
        LET H == Holders(dirs, cwd, last.name)
            B == Blocked(dirs, cwd, last.name)
        IN /\ (H # {} /\ \A b \in B : b < Max(H)) => (last.opened /\ last.dir = Max(H))
           /\ (B # {} /\ \A h \in H : h < Max(B)) =>
                  (~last.opened /\ last.result.err = ErrIo(NoLine))
           /\ (~last.opened /\ last.result.err = ErrNotFound) <=> (H = {} /\ B = {})
           /\ last.opened => (H # {} /\ last.dir = Max(H))

\* A search from the deepest of three directories that found the file in the
\* root, the only directory holding it.
C9_Witness ==
    /\ Searched /\ last.opened
    /\ Len(dirs) = 3 /\ cwd = 3 /\ last.dir = 1
    /\ Holders(dirs, cwd, last.name) = {1}

\* A search with no holder and no failing candidate: NotFound.
C9_WitnessNotFound ==
    /\ Searched /\ ~last.opened /\ last.result.err = ErrNotFound
    /\ cwd > 1

====
